---- MODULE Spec2Model ----
(***************************************************************************)
(* Model of the flashiq-ai-backend handlers.                               *)
(*                                                                         *)
(* The repository holds several revisions of api/extract.js.  They are     *)
(* named here by the place they live in:                                   *)
(*   "A"  src/api/extract.js:1-193        blob handler, readPptx           *)
(*   "B"  src/api/extract.js:195-363      results handler, OCR anything    *)
(*   "C"  src/unnamed/part_000            results handler, image/other OCR *)
(*   "D"  src/unnamed/part_001:1-113      single-file handler              *)
(*   "E"  src/unnamed/part_001:115-209    blob handler, openai client      *)
(*   "F"  src/unnamed/part_001:211-323    results handler, image-only OCR  *)
(* "G" is the flashcard handler, src/api/generate.js.                      *)
(*                                                                         *)
(* Spec runs a handler on a request; ReaderSpec runs the multipart reader  *)
(* of a handler on a request body; PptxSpec runs the presentation          *)
(* extractor of a results handler on an archive.                           *)
(*                                                                         *)
(* Text is kept run-length encoded: a string is a sequence of runs         *)
(* [c |-> symbol, n |-> count], adjacent runs holding different symbols.   *)
(* "SP", "NL", "CR" stand for space, line feed and carriage return; any    *)
(* other symbol is a non-whitespace character.  A bracketed message of     *)
(* the code ("[Could not parse PDF: ...]") is a run of one symbol naming   *)
(* the message.                                                            *)
(***************************************************************************)
EXTENDS Integers, Sequences, FiniteSets, TLC

\* ------------------------------------------------------------------ text

Run(c, n) == [c |-> c, n |-> n]

Str(c, n) == IF n = 0 THEN << >> ELSE << Run(c, n) >>

Empty == << >>

\* JavaScript's \s and the characters String.prototype.trim removes.
IsWs(c) == c \in {"SP", "NL", "CR"}

RECURSIVE Norm(_)
\* The canonical encoding: no empty run, no two adjacent runs of one symbol.
Norm(s) ==
  IF Len(s) = 0 THEN << >>
  ELSE IF s[1].n = 0 THEN Norm(Tail(s))
  ELSE IF Len(s) = 1 THEN s
  ELSE IF s[2].n = 0 THEN Norm(<< s[1] >> \o Tail(Tail(s)))
  ELSE IF s[1].c = s[2].c
       THEN Norm(<< Run(s[1].c, s[1].n + s[2].n) >> \o Tail(Tail(s)))
  ELSE << s[1] >> \o Norm(Tail(s))

\* a + b
Cat(s, t) == Norm(s \o t)

RECURSIVE Length(_)
\* s.length
Length(s) == IF Len(s) = 0 THEN 0 ELSE s[1].n + Length(Tail(s))

RECURSIVE TrimStart(_)
TrimStart(s) ==
  IF Len(s) = 0 THEN << >>
  ELSE IF IsWs(s[1].c) THEN TrimStart(Tail(s))
  ELSE s

RECURSIVE TrimEnd(_)
TrimEnd(s) ==
  IF Len(s) = 0 THEN << >>
  ELSE IF IsWs(s[Len(s)].c) THEN TrimEnd(SubSeq(s, 1, Len(s) - 1))
  ELSE s

\* s.trim()
Trim(s) == TrimEnd(TrimStart(s))

\* !s.trim()
Blank(s) == Trim(s) = << >>

RECURSIVE Slice(_, _)
\* s.slice(0, k)
Slice(s, k) ==
  IF Len(s) = 0 \/ k <= 0 THEN << >>
  ELSE IF s[1].n >= k THEN << Run(s[1].c, k) >>
  ELSE << s[1] >> \o Slice(Tail(s), k - s[1].n)

\* s.replace(/\r/g, "")
StripCR(s) == Norm(SelectSeq(s, LAMBDA r : r.c # "CR"))

\* s.replace(/\n{3,}/g, "\n\n")
CollapseNL(s) ==
  [i \in 1..Len(s) |->
     IF s[i].c = "NL" /\ s[i].n >= 3 THEN Run("NL", 2) ELSE s[i]]

\* The length of the whitespace block that starts s (in runs).
RECURSIVE WsPrefix(_)
WsPrefix(s) ==
  IF Len(s) = 0 \/ ~IsWs(s[1].c) THEN 0 ELSE 1 + WsPrefix(Tail(s))

\* The last run of s[1..k] that holds line feeds, 0 when there is none.
RECURSIVE LastNL(_, _)
LastNL(s, k) ==
  IF k = 0 THEN 0 ELSE IF s[k].c = "NL" THEN k ELSE LastNL(s, k - 1)

RECURSIVE SquashWsNl(_)
\* s.replace(/\s+\n/g, "\n"): in each maximal whitespace block, the longest
\* prefix of two or more characters ending in a line feed becomes one line feed.
SquashWsNl(s) ==
  IF Len(s) = 0 THEN << >>
  ELSE IF ~IsWs(s[1].c) THEN << s[1] >> \o SquashWsNl(Tail(s))
  ELSE LET k == WsPrefix(s)
           j == LastNL(s, k)
           rest == SubSeq(s, k + 1, Len(s))
       IN IF j > 1 \/ (j = 1 /\ s[1].n >= 2)
          THEN << Run("NL", 1) >> \o SubSeq(s, j + 1, k) \o SquashWsNl(rest)
          ELSE SubSeq(s, 1, k) \o SquashWsNl(rest)

\* ------------------------------------------------------------ file records

\* Variants of the handler, by where they live (see the module comment).
ResultsHandlers == {"B", "C", "F"}

BlobHandlers == {"A", "E"}

Handlers == ResultsHandlers \cup BlobHandlers \cup {"D"}

\* The most file parts of one request.
MaxFiles == 2

\* String.prototype.toLowerCase, on the names and types the model uses.
Lower(s) ==
  CASE s = "PDF" -> "pdf"
    [] s = "PPTX" -> "pptx"
    [] s = "TXT" -> "txt"
    [] s = "JPG" -> "jpg"
    [] OTHER -> s

Name(stem, ext) == [stem |-> stem, ext |-> ext]

Mime(type, sub) == [type |-> type, sub |-> sub]

PdfMime == Mime("application", "pdf")

PptxMime ==
  Mime("application", "vnd.openxmlformats-officedocument.presentationml.presentation")

DocxMime ==
  Mime("application", "vnd.openxmlformats-officedocument.wordprocessingml.document")

OctetMime == Mime("application", "octet-stream")

JpegMime == Mime("image", "jpeg")

\* Buffer.toString("utf8"): a byte that is no valid UTF-8 decodes to U+FFFD.
Utf8(buffer) ==
  Norm([k \in 1..Len(buffer) |->
          IF buffer[k].c = "xFF" THEN Run("uFFFD", buffer[k].n) ELSE buffer[k]])

File(name, mt, buffer) == [filename |-> name, mimeType |-> mt, buffer |-> buffer]

\* The file records a request may carry.
FileRecords ==
  { File(Name("doc", "pdf"), PdfMime, Str("%PDF", 1)),
    File(Name("deck", "pptx"), PptxMime, Str("PK", 1)),
    File(Name("notes", "txt"), Mime("text", "plain"),
         << Run("SP", 1), Run("t", 2), Run("NL", 1) >>),
    File(Name("blank", "TXT"), OctetMime, << Run("SP", 1), Run("NL", 1) >>),
    File(Name("pic", "png"), Mime("image", "png"), Str("PNG", 1)),
    File(Name("essay", "docx"), DocxMime, Str("PK", 1)),
    File(Name("scan", "PDF"), JpegMime, Str("JFIF", 1)),
    File(Name("data", "bin"), OctetMime, << Run("t", 1), Run("xFF", 1) >>) }

\* /\.pdf$/i.test(name), /\.pptx$/i.test(name), /\.txt$/i.test(name)
HasExt(name, ext) == Lower(name.ext) = ext

\* src/api/extract.js:245, src/unnamed/part_000:140, src/unnamed/part_001:244
isPdf(mt, name) == mt = PdfMime \/ HasExt(name, "pdf")

isPptx(mt, name) == mt = PptxMime \/ HasExt(name, "pptx")

isTxt(mt, name) == mt.type = "text" \/ HasExt(name, "txt")

\* /^image\//i.test(mt)
isImage(mt) == Lower(mt.type) = "image"

\* (name.split(".").pop() || "").toLowerCase()
ExtOf(name) == IF name.ext = "" THEN Lower(name.stem) ELSE Lower(name.ext)

\* ------------------------------------------------------- external services

BlobCap == 12000

SingleCap == 200000

\* Lengths of the text a document may hold.
TextSizes == {0, 1, BlobCap - 1, SingleCap + 1}

Ok(t) == [ok |-> TRUE, out |-> t, msg |-> ""]

Throw(m) == [ok |-> FALSE, out |-> << >>, msg |-> m]

\* What pdfParse(buffer) may do: reject, or resolve with the document's text.
PdfParse ==
  { Throw("Invalid PDF structure") }
    \cup { Ok(Str("p", n)) : n \in TextSizes }
    \cup { Ok(<< Run("SP", 1), Run("p", 1), Run("NL", 1) >>), Ok(Str("NL", 2)) }

\* What the chat-completions call may answer: a non-success status with a
\* message, or a success carrying the message content.
Vision ==
  { Throw("OpenAI OCR error"),
    Ok(<< >>),
    Ok(Str("SP", 1)),
    Ok(<< Run("o", 1), Run("NL", 1) >>) }

\* ocrWithOpenAI: throws on a non-success status, else the trimmed content.
ocrWithOpenAI(r) == IF r.ok THEN Ok(Trim(r.out)) ELSE r

\* What opening the archive and scanning its slides may yield (B, C, F).
Pptx ==
  { Throw("Invalid or unsupported zip format"),
    Ok(<< >>),
    Ok(<< Run("s", 1), Run("NL", 2), Run("s", 1) >>) }

\* ------------------------------------------------------------------ state

VARIABLES
  handler,   \* which variant of the handler serves the request
  files,     \* the file records the multipart reader resolved with
  pc,        \* where the handler is: "start", a per-file step, "fetch", "respond", "done"
  i,         \* the file the for-loop is at (1-based)
  text,      \* the loop body's `text`
  results,   \* the `results` array
  combined,  \* the `combinedText` / `combined` accumulator
  status,    \* the response's status, 0 before it is sent
  body,      \* the response's JSON body
  tries      \* per file, the strategy calls made for it so far (history)

\* The multipart reader (parseMultipart, parseForm, readSingleFile) and the
\* Busboy parser it listens to.
VARIABLES
  reader,     \* which reader runs: "A", "B", "C", "E", "F" or "D" (readSingleFile)
  parts,      \* the parts of the request body, in body order
  bb,         \* the parser: "idle", "parsing", "finished", "errored", "closed"
  opened,     \* how many parts the parser has announced or skipped
  sent,       \* per part, how many 'data' events its stream has emitted
  seen,       \* per part, how many bytes those events carried
  limited,    \* per part, whether its stream has emitted 'limit'
  ended,      \* per part, whether its stream has emitted 'end'
  chunks,     \* per part, the `chunks` array of the 'file' callback
  fields,     \* the `fields` object, as the names set so far
  promise,    \* the returned promise: "pending", "resolved", "rejected"
  value,      \* what the promise settled with: the records, or the error
  fileBuffer, \* readSingleFile's `fileBuffer`
  gotFile,    \* readSingleFile's `gotFile`
  info,       \* readSingleFile's `filename` and `mimetype`
  overlap     \* whether a stream emitted 'data' before an earlier one ended (history)

\* The presentation extractor (extractFromPptx, extractTextFromPptx,
\* extractPptx) at work on one archive.
VARIABLES
  variant,    \* whose extractor runs: "B" (extract.js), "C" (part_000), "F" (part_001)
  entries,    \* zip.getEntries(): the entries of the archive, in archive order
  slideEntries, \* the slide entries, filtered and sorted
  pushed,     \* the texts pushed so far (`pieces`, `all`, `out`)
  at,         \* the media image the OCR loop is at (1-based)
  ppc,        \* where the extractor is: "idle", "slides", "media", "done"
  calls,      \* the OCR calls made for media images, in call order (history)
  output      \* the text returned

\* The request as the handler sees it, and what the handler did about it.
VARIABLES
  method,     \* req.method
  req,        \* generate.js: whether OPENAI_API_KEY is set, and req.body
  ingested,   \* whether the handler went on to read the request body (history)
  fetched     \* how many chat-completions requests generate.js sent (history)

gvars == << method, req, ingested, fetched >>

hvars == << handler, pc, i, text, results, combined, status, body, tries, gvars >>

pvars == << variant, entries, slideEntries, pushed, at, ppc, calls, output >>

rvars == << reader, parts, bb, opened, sent, seen, limited, ended, chunks, fields,
            promise, value, fileBuffer, gotFile, info, overlap >>

vars == << hvars, files, rvars, pvars >>

\* No archive is being extracted.
PptxIdle ==
  /\ variant = "none" /\ entries = << >> /\ slideEntries = << >> /\ pushed = << >>
  /\ at = 1 /\ ppc = "idle" /\ calls = << >> /\ output = << >>

NoMime == Mime("", "")

NoName == Name("", "")

\* One strategy call: its phase, the strategy, the MIME type an OCR call was
\* given, and what it assigned to the text or threw.
Try(phase, strat, mime, r) ==
  [phase |-> phase, strat |-> strat, mime |-> mime,
   ok |-> r.ok, out |-> r.out, msg |-> r.msg]

Body(kind, t, rs, err) == [kind |-> kind, text |-> t, results |-> rs, error |-> err]

Success(f, t) == [file |-> f.filename, ok |-> TRUE, text |-> t, error |-> ""]

Failure(f, msg) == [file |-> f.filename, ok |-> FALSE, text |-> << >>, error |-> msg]

FileLists == UNION { [1..n -> FileRecords] : n \in 0..MaxFiles }

\* The request methods a client may use.
Methods == {"POST", "OPTIONS", "GET"}

\* req.body as generate.js finds it: an object ("object") or a JSON string of
\* one ("json") whose `text` is the given string, an object whose `text` is a
\* number ("number"), a string that is no JSON ("string"), or nothing ("none").
ReqBody(kind, t) == [kind |-> kind, text |-> t]

ReqBodies ==
  { ReqBody("object", Str("n", 1)),
    ReqBody("object", << Run("SP", 1), Run("n", 2), Run("NL", 1) >>),
    ReqBody("object", << Run("SP", 1), Run("NL", 1) >>),
    ReqBody("json", Str("n", 1)),
    ReqBody("number", << >>),
    ReqBody("string", << >>),
    ReqBody("none", << >>) }

\* What generate.js is called with: process.env.OPENAI_API_KEY being set or
\* not, and the request body.
Requests == [apiKey : BOOLEAN, body : ReqBodies]

\* The request of a handler that looks at neither the key nor req.body.
NoReq == [apiKey |-> TRUE, body |-> ReqBody("none", << >>)]

Init ==
  /\ handler \in Handlers \cup {"G"}
  /\ files \in FileLists
  /\ handler = "D" => Len(files) <= 1
  /\ handler = "G" => files = << >>
  /\ pc = "start"
  /\ i = 1
  /\ text = << >>
  /\ results = << >>
  /\ combined = << >>
  /\ status = 0
  /\ body = Body("none", << >>, << >>, "")
  /\ tries = [k \in 1..Len(files) |-> << >>]
  /\ method \in Methods
  /\ req \in IF handler = "G" THEN Requests ELSE {NoReq}
  /\ ingested = FALSE
  /\ fetched = 0
  /\ reader = "none" /\ parts = << >> /\ bb = "idle" /\ opened = 0
  /\ sent = << >> /\ seen = << >> /\ limited = << >> /\ ended = << >>
  /\ chunks = << >> /\ fields = {} /\ promise = "resolved" /\ value = files
  /\ fileBuffer = << >> /\ gotFile = FALSE /\ overlap = FALSE
  /\ info = [filename |-> NoName, mimeType |-> NoMime]
  /\ PptxIdle

\* res.status(s).json(b), ending the handler.
Respond(s, b) ==
  /\ status' = s
  /\ body' = b
  /\ pc' = "done"

\* if (!files.length) return res.status(400).json({ error: ... })
NoFilesError ==
  CASE handler \in BlobHandlers -> "No files"
    [] handler = "D" -> "No file uploaded (field name must be 'file')"
    [] OTHER -> "No files uploaded"

\* The per-file step a handler's loop starts with.
FirstStep ==
  CASE handler \in ResultsHandlers -> "primary"
    [] handler \in BlobHandlers -> "segment"
    [] OTHER -> "single"

\* if (req.method === "OPTIONS") return res.status(200).end();
\* if (req.method !== "POST") return res.status(405).json({ error: "POST only" });
\* The method check, were it to stop only OPTIONS requests.
MethodRefusedOnlyOptions == method = "OPTIONS"

\* Whether the handler returns at these two lines, and with what.
MethodRefused == method # "POST"

RefuseMethod ==
  IF method = "OPTIONS"
  THEN Respond(200, Body("end", << >>, << >>, ""))
  ELSE Respond(405, Body("error", << >>, << >>, "POST only"))

\* The handler is entered: a method other than POST is answered at once;
\* else the body is read, and once the reader has resolved an empty list is
\* answered 400, else the loop starts.
Start ==
  /\ UNCHANGED << rvars, pvars, method, req, fetched >>
  /\ pc = "start"
  /\ handler \in Handlers
  /\ IF MethodRefused
     THEN /\ RefuseMethod
          /\ UNCHANGED << handler, files, i, text, results, combined, tries,
                          ingested >>
     ELSE /\ ingested' = TRUE
          /\ IF Len(files) = 0
             THEN /\ Respond(400, Body("error", << >>, << >>, NoFilesError))
                  /\ UNCHANGED << handler, files, i, text, results, combined, tries >>
             ELSE /\ pc' = FirstStep
                  /\ UNCHANGED << handler, files, i, text, results, combined,
                                  status, body, tries >>

\* ------------------------------------------- results handlers (B, C, F)

\* The for-loop moves to the next file, or past the last one.
NextFile ==
  /\ i' = i + 1
  /\ text' = << >>
  /\ pc' = IF i = Len(files) THEN "respond" ELSE FirstStep

\* Catch with the push forgotten: the error is swallowed.
CatchSwallowed(msg) ==
  /\ results' = results
  /\ NextFile

\* catch (err) { results.push({ file, ok: false, error: String(err.message || err) }) }
Catch(msg) ==
  /\ results' = Append(results, Failure(files[i], msg))
  /\ NextFile

\* A strategy call inside the per-file try: its value goes to `text` and the
\* step goes on, or it throws into the per-file catch.
Attempt(phase, strat, mime, r, then) ==
  /\ tries' = [tries EXCEPT ![i] = Append(@, Try(phase, strat, mime, r))]
  /\ IF r.ok
     THEN /\ text' = r.out
          /\ pc' = then
          /\ UNCHANGED << i, results >>
     ELSE Catch(r.msg)
  /\ UNCHANGED << handler, files, combined, status, body >>

\* No strategy ran in this phase: `text` is kept.
Skip(then) ==
  /\ pc' = then
  /\ UNCHANGED << handler, files, i, text, results, combined, status, body, tries >>

\* (parsed.text || "").trim()
Trimmed(r) == IF r.ok THEN Ok(Trim(r.out)) ELSE r

\* B: the if / else-if chain that picks the primary strategy.
PrimaryB ==
  /\ UNCHANGED << rvars, pvars, gvars >>
  /\ pc = "primary" /\ handler = "B"
  /\ LET f == files[i] IN
       IF isPdf(f.mimeType, f.filename)
       THEN \E r \in PdfParse : Attempt("primary", "pdf", NoMime, Trimmed(r), "fallback")
       ELSE IF isPptx(f.mimeType, f.filename)
       THEN \E r \in Pptx : Attempt("primary", "pptx", NoMime, Trimmed(r), "fallback")
       ELSE IF isTxt(f.mimeType, f.filename)
       THEN Attempt("primary", "txt", NoMime, Ok(Utf8(f.buffer)), "fallback")
       ELSE IF isImage(f.mimeType)
       THEN \E r \in Vision :
              Attempt("primary", "ocr", f.mimeType, ocrWithOpenAI(r), "fallback")
       ELSE Skip("fallback")

\* FallbackB with the retry left out for images, which already went through OCR.
FallbackBSkipsImages ==
  /\ UNCHANGED << rvars, pvars, gvars >>
  /\ pc = "fallback" /\ handler = "B"
  /\ IF Blank(text) /\ ~isImage(files[i].mimeType)
     THEN \E r \in Vision :
            Attempt("fallback", "ocr", JpegMime, ocrWithOpenAI(r), "record")
     ELSE Skip("record")

\* B: "Ultimate fallback: OCR anything that yielded nothing".
FallbackB ==
  /\ UNCHANGED << rvars, pvars, gvars >>
  /\ pc = "fallback" /\ handler = "B"
  /\ IF Blank(text)
     THEN \E r \in Vision :
            Attempt("fallback", "ocr", JpegMime, ocrWithOpenAI(r), "record")
     ELSE Skip("record")

\* B: the outcome pushed at the end of the try block.
OutcomeB(f, t) ==
  IF ~Blank(t) THEN Success(f, t) ELSE Failure(f, "No extractable text found")

RecordB ==
  /\ UNCHANGED << rvars, pvars, gvars >>
  /\ pc = "record" /\ handler = "B"
  /\ results' = Append(results, OutcomeB(files[i], text))
  /\ NextFile
  /\ UNCHANGED << handler, files, combined, status, body, tries >>

\* C: the primary chain; an image has no branch of its own here.
PrimaryC ==
  /\ UNCHANGED << rvars, pvars, gvars >>
  /\ pc = "primary" /\ handler = "C"
  /\ LET f == files[i] IN
       IF isPdf(f.mimeType, f.filename)
       THEN \E r \in PdfParse : Attempt("primary", "pdf", NoMime, Trimmed(r), "fallback")
       ELSE IF isPptx(f.mimeType, f.filename)
       THEN \E r \in Pptx : Attempt("primary", "pptx", NoMime, r, "fallback")
       ELSE IF isTxt(f.mimeType, f.filename)
       THEN Attempt("primary", "txt", NoMime, Ok(Utf8(f.buffer)), "fallback")
       ELSE Skip("fallback")

\* C: the MIME type the OCR call is given: the file's own for an image
\* (line 180), "image/jpeg" for anything else (line 186).
FallbackMimeC(f) == IF isImage(f.mimeType) THEN f.mimeType ELSE JpegMime

\* C: the two guarded OCR calls; their guards exclude each other.
FallbackC ==
  /\ UNCHANGED << rvars, pvars, gvars >>
  /\ pc = "fallback" /\ handler = "C"
  /\ IF Blank(text)
     THEN \E r \in Vision :
            Attempt("fallback", "ocr", FallbackMimeC(files[i]), ocrWithOpenAI(r),
                    "record")
     ELSE Skip("record")

OutcomeC(f, t) ==
  IF Blank(t) THEN Failure(f, "No extractable text found") ELSE Success(f, t)

RecordC ==
  /\ UNCHANGED << rvars, pvars, gvars >>
  /\ pc = "record" /\ handler = "C"
  /\ results' = Append(results, OutcomeC(files[i], text))
  /\ NextFile
  /\ UNCHANGED << handler, files, combined, status, body, tries >>

\* F: text first, then PDF (untrimmed), then presentation.
PrimaryF ==
  /\ UNCHANGED << rvars, pvars, gvars >>
  /\ pc = "primary" /\ handler = "F"
  /\ LET f == files[i] IN
       IF isTxt(f.mimeType, f.filename)
       THEN Attempt("primary", "txt", NoMime, Ok(Utf8(f.buffer)), "fallback")
       ELSE IF isPdf(f.mimeType, f.filename)
       THEN \E r \in PdfParse : Attempt("primary", "pdf", NoMime, r, "fallback")
       ELSE IF isPptx(f.mimeType, f.filename)
       THEN \E r \in Pptx : Attempt("primary", "pptx", NoMime, r, "fallback")
       ELSE Skip("fallback")

\* F: OCR only when nothing was extracted and the declared type is an image.
FallbackF ==
  /\ UNCHANGED << rvars, pvars, gvars >>
  /\ pc = "fallback" /\ handler = "F"
  /\ IF Blank(text) /\ isImage(files[i].mimeType)
     THEN \E r \in Vision :
            Attempt("fallback", "ocr", files[i].mimeType, ocrWithOpenAI(r), "record")
     ELSE Skip("record")

\* OutcomeF reporting a thrown error's reason for a file that merely had no text.
OutcomeFWrongReason(f, t) ==
  IF Blank(t) THEN Failure(f, "extract-failed") ELSE Success(f, Trim(t))

\* F: the pushed text is text.trim().
OutcomeF(f, t) ==
  IF Blank(t) THEN Failure(f, "No extractable text found") ELSE Success(f, Trim(t))

RecordF ==
  /\ UNCHANGED << rvars, pvars, gvars >>
  /\ pc = "record" /\ handler = "F"
  /\ results' = Append(results, OutcomeF(files[i], text))
  /\ NextFile
  /\ UNCHANGED << handler, files, combined, status, body, tries >>

\* res.json({ results })
RespondResults ==
  /\ UNCHANGED << rvars, pvars, gvars >>
  /\ pc = "respond" /\ handler \in ResultsHandlers
  /\ Respond(200, Body("results", << >>, results, ""))
  /\ UNCHANGED << handler, files, i, text, results, combined, tries >>

\* ---------------------------------------------- blob handlers (A, E) and D

RECURSIVE Join(_, _)
\* texts.join(sep)
Join(texts, sep) ==
  IF Len(texts) = 0 THEN << >>
  ELSE IF Len(texts) = 1 THEN texts[1]
  ELSE Cat(Cat(texts[1], sep), Join(Tail(texts), sep))

\* The length of a file name as a string.
NameLen(name) ==
  Len(name.stem) + (IF name.ext = "" THEN 0 ELSE 1 + Len(name.ext))

\* A bracketed message of the code, `lit` being its literal part and `name`
\* the file name spliced into it.
Msg(lit, name) == << Run(lit, Len(lit) + NameLen(name)) >>

Deck(array, slides) == [ok |-> TRUE, array |-> array, slides |-> slides, msg |-> ""]

\* What readPptx(buffer) may do: reject, or resolve with a deck whose slides
\* may be missing, empty or hold text.
ReadPptx ==
  { [ok |-> FALSE, array |-> FALSE, slides |-> << >>, msg |-> "pptx-parser failed"],
    Deck(FALSE, << >>),
    Deck(TRUE, << >>),
    Deck(TRUE, << << >>, << >> >>),
    Deck(TRUE, << << Run("SP", 1), Run("s", 1) >>, Str("s", 2) >>) }

\* slides.map((s) => (s.text || "").trim()).join("\n")
SlideText(slides) == Join([k \in 1..Len(slides) |-> Trim(slides[k])], Str("NL", 1))

\* A: ocrWithOpenAIVision: the content untrimmed, "vision-failed" on a
\* non-success status.
ocrWithOpenAIVision(r) == IF r.ok THEN Ok(r.out) ELSE Throw("vision-failed")

\* E: ocrImageToText: the client throws on a failed call.
ocrImageToText(r) == r

\* combinedText += `\n\n${seg}`, and the loop moves on.
AddSegment(seg) ==
  /\ combined' = Cat(combined, Cat(Str("NL", 2), seg))
  /\ i' = i + 1
  /\ pc' = IF i = Len(files) THEN "respond" ELSE "segment"
  /\ UNCHANGED << handler, files, text, results, status, body >>

Logged(strat, mime, r) ==
  tries' = [tries EXCEPT ![i] = Append(@, Try("primary", strat, mime, r))]

\* PdfSegmentA with the failed file left out of the text.
PdfSegmentAOmitsFailure(f, r) == IF r.ok THEN Trim(r.out) ELSE << >>

\* A: what the PDF branch appends.
PdfSegmentA(f, r) ==
  IF r.ok THEN Trim(r.out) ELSE Msg("[Could not parse PDF: ]", f.filename)

\* A: the slide text of the deck readPptx resolved with.
DeckTextA(d) == SlideText(IF d.array THEN d.slides ELSE << >>)

\* A: what the PPT/PPTX branch appends.
PptxSegmentA(f, d) ==
  IF ~d.ok
  THEN Msg("[Could not parse  directly. Tip: Export slides as PDF and re-upload for best results.]",
           f.filename)
  ELSE IF DeckTextA(d) # << >> THEN DeckTextA(d)
  ELSE Msg("[No visible text found in ]", f.filename)

\* A: what the image branch appends.
OcrSegmentA(f, r) ==
  IF r.ok THEN Trim(r.out) ELSE Msg("[Could not OCR image: ]", f.filename)

DocxMsgA == Msg("[.docx parsing not implemented. Convert to PDF or TXT.]", NoName)

\* A: one pass of the for-loop body.
SegmentA ==
  /\ UNCHANGED << rvars, pvars, gvars >>
  /\ pc = "segment" /\ handler = "A"
  /\ LET f == files[i]
         ext == ExtOf(f.filename)
     IN IF ext = "pdf" \/ f.mimeType = PdfMime
        THEN \E r \in PdfParse :
               /\ Logged("pdf", NoMime, r)
               /\ AddSegment(PdfSegmentA(f, r))
        ELSE IF ext \in {"ppt", "pptx"}
        THEN \E d \in ReadPptx :
               /\ Logged("pptx", NoMime,
                         IF d.ok THEN Ok(DeckTextA(d)) ELSE Throw(d.msg))
               /\ AddSegment(PptxSegmentA(f, d))
        ELSE IF f.mimeType.type = "image"
        THEN \E r \in Vision :
               /\ Logged("ocr", f.mimeType, ocrWithOpenAIVision(r))
               /\ AddSegment(OcrSegmentA(f, ocrWithOpenAIVision(r)))
        ELSE IF ext = "txt" \/ f.mimeType = Mime("text", "plain")
        THEN /\ Logged("txt", NoMime, Ok(Utf8(f.buffer)))
             /\ AddSegment(Trim(Utf8(f.buffer)))
        ELSE IF ext = "docx"
        THEN /\ AddSegment(DocxMsgA)
             /\ UNCHANGED tries
        ELSE /\ Logged("txt", NoMime, Ok(Utf8(f.buffer)))
             /\ AddSegment(Trim(Utf8(f.buffer)))

\* A: combinedText.replace(/\r/g, "").replace(/\n{3,}/g, "\n\n").trim()
CleanA(s) == Trim(CollapseNL(StripCR(s)))

\* LimitA with the slice left out.
LimitAUncapped(s) == s

\* A: cleaned.slice(0, 12000)
LimitA(s) == Slice(s, BlobCap)

RespondA ==
  /\ UNCHANGED << rvars, pvars, gvars >>
  /\ pc = "respond" /\ handler = "A"
  /\ Respond(200, Body("text", LimitA(CleanA(combined)), << >>, ""))
  /\ UNCHANGED << handler, files, i, text, results, combined, tries >>

DocxMsgE == Msg("[.docx parsing not implemented yet]", NoName)

\* E: a throw inside the loop reaches the handler's only catch.
FailE ==
  /\ Respond(500, Body("error", << >>, << >>, "extract-failed"))
  /\ UNCHANGED << handler, files, i, text, results, combined >>

\* E: one pass of the for-loop body; nothing is caught per file.
SegmentE ==
  /\ UNCHANGED << rvars, pvars, gvars >>
  /\ pc = "segment" /\ handler = "E"
  /\ LET f == files[i]
         ext == ExtOf(f.filename)
     IN IF ext = "pdf"
        THEN \E r \in PdfParse :
               /\ Logged("pdf", NoMime, r)
               /\ IF r.ok THEN AddSegment(r.out) ELSE FailE
        ELSE IF ext \in {"ppt", "pptx"}
        THEN \E d \in ReadPptx :
               /\ Logged("pptx", NoMime,
                         IF d.ok /\ d.array THEN Ok(SlideText(d.slides))
                         ELSE Throw(IF d.ok THEN "TypeError" ELSE d.msg))
               /\ IF d.ok /\ d.array THEN AddSegment(SlideText(d.slides)) ELSE FailE
        ELSE IF ext = "docx"
        THEN /\ AddSegment(DocxMsgE)
             /\ UNCHANGED tries
        ELSE IF f.mimeType.type = "image"
        THEN \E r \in Vision :
               /\ Logged("ocr", f.mimeType, ocrImageToText(r))
               /\ IF r.ok THEN AddSegment(ocrImageToText(r).out) ELSE FailE
        ELSE /\ Logged("txt", NoMime, Ok(Utf8(f.buffer)))
             /\ AddSegment(Utf8(f.buffer))

\* E: combined.replace(/\s+\n/g, '\n').trim()
CleanE(s) == Trim(SquashWsNl(s))

\* E: .slice(0, 12000)
LimitE(s) == Slice(s, BlobCap)

RespondE ==
  /\ UNCHANGED << rvars, pvars, gvars >>
  /\ pc = "respond" /\ handler = "E"
  /\ Respond(200, Body("text", LimitE(CleanE(combined)), << >>, ""))
  /\ UNCHANGED << handler, files, i, text, results, combined, tries >>

\* D: type.includes("pdf") || lower.endsWith(".pdf")
IsPdfD(f) == f.mimeType.sub = "pdf" \/ HasExt(f.filename, "pdf")

\* D: `Slide ${k + 1}:\n${(s.text || "").trim()}` for each slide, joined by "\n\n"
SlidesD(slides) ==
  Join([k \in 1..Len(slides) |->
          Cat(<< Run("Slide N:", 8), Run("NL", 1) >>, Trim(slides[k]))],
       Str("NL", 2))

\* D: the text of a deck, or the friendly message when there is none.
PptxTextD(d) ==
  LET t == IF d.ok /\ d.array THEN SlidesD(d.slides) ELSE << >>
  IN IF t # << >> THEN t
     ELSE Msg("[Could not extract PPTX text. Try exporting slides to PDF and upload the PDF.]",
              NoName)

UnsupportedD == Msg("[Unsupported file type for text extraction. Use PDF or PPTX.]", NoName)

\* "\n[truncated]"
TruncatedMark == << Run("NL", 1), Run("[truncated]", 11) >>

\* D: if (text.length > 200_000) text = text.slice(0, 200_000) + "\n[truncated]"
GuardD(t) ==
  IF Length(t) > SingleCap THEN Cat(Slice(t, SingleCap), TruncatedMark) ELSE t

\* D: the response of a request that carried a file.
SendD(t) ==
  /\ Respond(200, Body("text", GuardD(t), << >>, ""))
  /\ text' = GuardD(t)
  /\ UNCHANGED << handler, files, i, results, combined >>

\* D: the whole handler after the reader resolved with a file.
SingleD ==
  /\ UNCHANGED << rvars, pvars, gvars >>
  /\ pc = "single" /\ handler = "D"
  /\ LET f == files[1] IN
       IF IsPdfD(f)
       THEN \E r \in PdfParse :
              /\ Logged("pdf", NoMime, Trimmed(r))
              /\ IF r.ok THEN SendD(Trim(r.out))
                 ELSE /\ Respond(500, Body("error", << >>, << >>, "PDF parse failed"))
                      /\ UNCHANGED << handler, files, i, text, results, combined >>
       ELSE IF HasExt(f.filename, "pptx")
       THEN \E d \in ReadPptx :
              /\ Logged("pptx", NoMime, Ok(PptxTextD(d)))
              /\ SendD(PptxTextD(d))
       ELSE /\ SendD(UnsupportedD)
            /\ UNCHANGED tries


\* ------------------------------------------------- generate handler (G)

\* A card of the model's answer; a field that is missing reads "undefined",
\* as do both fields of a card that is null.
Card(front, back) == [front |-> front, back |-> back]

\* c?.front && c?.back
Truthy(v) == v \notin {"", "undefined"}

KeepsCard(c) == Truthy(c.front) /\ Truthy(c.back)

CardLists ==
  { << >>,
    << Card("q1", "a1"), Card("", "a"), Card("q2", "a2"),
       Card("undefined", "undefined"), Card("q", "undefined") >>,
    [j \in 1..21 |-> Card("q1", "a1")] }

\* What JSON.parse of the message content gives: the object { cards: list }
\* ("wrapped"), the array itself ("bare"), an object holding the list under
\* another key ("other"), an object whose `cards` is no array ("scalar") or
\* null ("null").
Data(shape, list) == [shape |-> shape, cards |-> list]

\* Array.isArray(data?.cards) ? data.cards.filter(c => c?.front && c?.back) : []
CardsOf(data) ==
  IF data.shape = "wrapped" THEN SelectSeq(data.cards, KeepsCard) ELSE << >>

\* An answer of the chat-completions request: the fetch rejects ("reject"),
\* the body is no JSON ("nojson"), the body is JSON null ("null"), or a JSON
\* object arrives with the given status; `parses` tells whether the message
\* content is JSON and `data` what it parses to (a missing content is read
\* as "{}").
Completion(net, code, parses, data) ==
  [net |-> net, status |-> code, parses |-> parses, data |-> data]

Completions ==
  { Completion("reject", 0, FALSE, Data("null", << >>)),
    Completion("nojson", 502, FALSE, Data("null", << >>)),
    Completion("null", 200, FALSE, Data("null", << >>)),
    Completion("json", 200, FALSE, Data("null", << >>)) }
  \cup { Completion("json", code, FALSE, Data("null", << >>)) : code \in {401, 429, 503} }
  \cup { Completion("json", 200, TRUE, Data(shape, list)) :
           shape \in {"wrapped", "bare", "other"}, list \in CardLists }
  \cup { Completion("json", 200, TRUE, Data(shape, << >>)) : shape \in {"scalar", "null"} }

\* resp.ok
RespOk(c) == c.status \in 200..299

\* The handler is entered: a method other than POST is answered at once, a
\* missing key with 500 and a missing or blank text with 400 (a text that is
\* no string makes trim throw, which the catch answers with 500); else the
\* chat-completions request is sent.
GenerateStart ==
  /\ UNCHANGED << rvars, pvars, method, req >>
  /\ pc = "start"
  /\ handler = "G"
  /\ IF MethodRefused
     THEN /\ RefuseMethod
          /\ UNCHANGED << text, ingested, fetched >>
     ELSE /\ ingested' = TRUE
          /\ IF ~req.apiKey
             THEN /\ Respond(500, Body("error", << >>, << >>, "Missing OPENAI_API_KEY"))
                  /\ UNCHANGED << text, fetched >>
             ELSE IF req.body.kind = "number"
             THEN /\ Respond(500, Body("error", << >>, << >>, "trim is not a function"))
                  /\ UNCHANGED << text, fetched >>
             ELSE IF Trim(req.body.text) = << >>
             THEN /\ Respond(400, Body("error", << >>, << >>, "No text"))
                  /\ UNCHANGED << text, fetched >>
             ELSE /\ text' = Trim(req.body.text)
                  /\ fetched' = fetched + 1
                  /\ pc' = "fetch"
                  /\ UNCHANGED << status, body >>
  /\ UNCHANGED << handler, files, i, results, combined, tries >>

\* res.status(resp.status)
Relayed(c) == c.status

\* The chat-completions request settles and the handler answers: 500 from
\* the catch when the fetch or resp.json() throws, the upstream status when
\* it is no success, 502 when the content is no JSON (or the body is null, so
\* reading json.choices throws inside the inner try), else the cards.
GenerateReply ==
  /\ UNCHANGED << rvars, pvars, gvars >>
  /\ pc = "fetch"
  /\ handler = "G"
  /\ \E c \in Completions :
       IF c.net = "reject"
       THEN Respond(500, Body("error", << >>, << >>, "fetch failed"))
       ELSE IF c.net = "nojson"
       THEN Respond(500, Body("error", << >>, << >>, "Unexpected token"))
       ELSE IF ~RespOk(c)
       THEN Respond(Relayed(c), Body("error", << >>, << >>, "OpenAI error"))
       ELSE IF c.net = "null" \/ ~c.parses
       THEN Respond(502, Body("error", << >>, << >>, "Bad JSON from model"))
       ELSE Respond(200, Body("cards", << >>, CardsOf(c.data), ""))
  /\ UNCHANGED << handler, files, i, text, results, combined, tries >>

\* ------------------------------------------------------- multipart readers

\* limits.fileSize of readSingleFile: 4.5 * 1024 * 1024 bytes.
FileSizeLimit == 4718592

\* The most parts a request body has.
MaxParts == 2

\* The readers built on parseMultipart / parseForm, which set no limits.
ParseMultipartReaders == {"A", "B", "C", "E", "F"}

\* The readers that resolve in the parser's 'finish' listener; the others
\* resolve in its 'close' listener.
ResolveOnFinish == {"A", "D", "E"}

\* A part of the body: a file part (it has a stream, whose bytes arrive in
\* chunks of the given sizes) or a plain field.
Part(kind, name, filename, mt, sizes) ==
  [kind |-> kind, name |-> name, filename |-> filename, mimeType |-> mt,
   sizes |-> sizes]

PartShapes ==
  { Part("file", "file", Name("doc", "pdf"), PdfMime, << 1, 1 >>),
    Part("file", "file", NoName, NoMime, << >>),
    Part("file", "file", Name("deck", "pptx"), PptxMime, << FileSizeLimit, 1 >>),
    Part("file", "file", Name("pic", "png"), Mime("image", "png"), << FileSizeLimit >>),
    Part("file", "doc", Name("notes", "txt"), Mime("text", "plain"), << FileSizeLimit + 1 >>),
    Part("field", "title", NoName, NoMime, << >>) }

Bodies == UNION { [1..n -> PartShapes] : n \in 0..MaxParts }

\* The bytes of chunk j of part k; no two chunks of a body hold the same bytes.
Chunk(k, j) ==
  Str("b" \o ToString(k) \o "_" \o ToString(j), parts[k].sizes[j])

\* All the bytes of part k.
Whole(k) == Join([j \in 1..Len(parts[k].sizes) |-> Chunk(k, j)], << >>)

IsFilePart(k) == parts[k].kind = "file"

\* limits.files of readSingleFile is 1: the parser drops every file part
\* after the first without a 'file' event.
Skipped(k) == reader = "D" /\ \E j \in 1..(k - 1) : IsFilePart(j)

\* The parts whose 'file' callback runs.
Announced(k) == IsFilePart(k) /\ ~Skipped(k)

\* The part readSingleFile listens to: `name !== "file"` parts are resumed
\* and ignored.
Listening(k) == reader = "D" /\ Announced(k) /\ parts[k].name = "file"

\* Whether the parser was given limits.fileSize.
HasLimit == reader = "D"

\* The bytes the next 'data' event of part k carries: the chunk, cut at the
\* size limit when there is one.
Delivered(k) ==
  IF HasLimit THEN Slice(Chunk(k, sent[k] + 1), FileSizeLimit - seen[k])
  ELSE Chunk(k, sent[k] + 1)

\* filename || "upload.bin" / filename || "unnamed" / info.filename
DefaultName(name) ==
  IF name # NoName \/ reader \in {"E", "F"} THEN name
  ELSE IF reader = "A" THEN Name("upload", "bin")
  ELSE Name("unnamed", "")

\* mimeType || "application/octet-stream" / info.mimeType
DefaultMime(mt) ==
  IF mt # NoMime \/ reader \in {"E", "F"} THEN mt ELSE OctetMime

\* Settling the promise: only the first resolve or reject counts.
Settle(how, v) ==
  IF promise = "pending"
  THEN promise' = how /\ value' = v
  ELSE UNCHANGED << promise, value >>

HandlerIdle ==
  /\ handler = "none" /\ pc = "reading" /\ i = 1 /\ text = << >>
  /\ results = << >> /\ combined = << >> /\ status = 0
  /\ body = Body("none", << >>, << >>, "") /\ tries = << >>
  /\ method = "POST" /\ req = NoReq /\ ingested = FALSE /\ fetched = 0

\* The state when `new Promise(...)` returns: listeners attached,
\* req.pipe(bb) called, nothing parsed yet.
ReaderInit ==
  /\ HandlerIdle
  /\ reader \in Handlers
  /\ parts \in Bodies
  /\ bb = "parsing"
  /\ opened = 0
  /\ sent = [k \in 1..Len(parts) |-> 0]
  /\ seen = [k \in 1..Len(parts) |-> 0]
  /\ limited = [k \in 1..Len(parts) |-> FALSE]
  /\ ended = [k \in 1..Len(parts) |-> FALSE]
  /\ chunks = [k \in 1..Len(parts) |-> << >>]
  /\ files = << >>
  /\ fields = {}
  /\ promise = "pending"
  /\ value = << >>
  /\ fileBuffer = << >>
  /\ gotFile = FALSE
  /\ info = [filename |-> NoName, mimeType |-> NoMime]
  /\ overlap = FALSE
  /\ PptxIdle

\* bb.on("file", ...): the parser reaches the next part, a file part. The
\* callback of parseMultipart starts an empty `chunks` and attaches the
\* 'data' and 'end' listeners; readSingleFile's resumes a part not named
\* "file" and otherwise notes the file and attaches 'data' and 'limit'.
BbFile ==
  /\ bb = "parsing"
  /\ opened < Len(parts)
  /\ IsFilePart(opened + 1)
  /\ LET k == opened + 1 IN
       /\ opened' = k
       /\ ended' = [ended EXCEPT ![k] = Skipped(k)]
       /\ IF Listening(k)
          THEN /\ gotFile' = TRUE
               /\ info' = [filename |-> parts[k].filename,
                           mimeType |-> parts[k].mimeType]
          ELSE UNCHANGED << gotFile, info >>
  /\ UNCHANGED << hvars, pvars, files, reader, parts, bb, sent, seen, limited, chunks,
                  fields, promise, value, fileBuffer, overlap >>

\* bb.on("field", (n, v) => fields[n] = v), which only the readers of
\* extract.js:220-241 and part_000 attach; the others let fields pass.
BbField ==
  /\ bb = "parsing"
  /\ opened < Len(parts)
  /\ ~IsFilePart(opened + 1)
  /\ LET k == opened + 1 IN
       /\ opened' = k
       /\ ended' = [ended EXCEPT ![k] = TRUE]
       /\ fields' = IF reader \in {"B", "C"} THEN fields \cup {parts[k].name}
                    ELSE fields
  /\ UNCHANGED << hvars, pvars, files, reader, parts, bb, sent, seen, limited, chunks,
                  promise, value, fileBuffer, gotFile, info, overlap >>

\* chunks.push(d), with keeping only the last chunk in its place.
CollectLatest(cs, d) == << d >>

\* chunks.push(d)
Collect(cs, d) == Append(cs, d)

\* file.on("data", ...): the stream of an announced part emits its next
\* chunk. A stream may emit while an earlier one has not ended yet.
StreamData ==
  /\ bb = "parsing"
  /\ \E k \in 1..opened :
       /\ Announced(k)
       /\ ~ended[k] /\ ~limited[k]
       /\ sent[k] < Len(parts[k].sizes)
       /\ HasLimit => seen[k] < FileSizeLimit
       /\ LET d == Delivered(k) IN
            /\ sent' = [sent EXCEPT ![k] = @ + 1]
            /\ seen' = [seen EXCEPT ![k] = @ + Length(d)]
            /\ chunks' = IF reader \in ParseMultipartReaders
                         THEN [chunks EXCEPT ![k] = Collect(@, d)]
                         ELSE chunks
            /\ fileBuffer' = IF Listening(k) THEN Cat(fileBuffer, d)
                             ELSE fileBuffer
       /\ overlap' = (overlap \/ \E j \in 1..(k - 1) : Announced(j) /\ ~ended[j])
  /\ UNCHANGED << hvars, pvars, files, reader, parts, bb, opened, limited, ended,
                  fields, promise, value, gotFile, info >>

\* stream.on("limit", () => reject(new Error("File too large (limit ~4.5MB)"))):
\* the parser emits 'limit' on a stream once it has passed limits.fileSize
\* bytes of the part, and passes no more of it.
StreamLimit ==
  /\ bb = "parsing"
  /\ HasLimit
  /\ \E k \in 1..opened :
       /\ Announced(k)
       /\ ~ended[k] /\ ~limited[k]
       /\ seen[k] = FileSizeLimit
       /\ limited' = [limited EXCEPT ![k] = TRUE]
       /\ IF Listening(k)
          THEN Settle("rejected", "File too large (limit ~4.5MB)")
          ELSE UNCHANGED << promise, value >>
  /\ UNCHANGED << hvars, pvars, files, reader, parts, bb, opened, sent, seen, ended,
                  chunks, fields, fileBuffer, gotFile, info, overlap >>

\* The record the 'end' listener of parseMultipart pushes for part k.
EndRecord(k) ==
  File(DefaultName(parts[k].filename), DefaultMime(parts[k].mimeType),
       Join(chunks[k], << >>))

\* file.on("end", () => files.push({...})): a stream ends after its last
\* chunk, and streams end in part order. readSingleFile has no 'end'
\* listener.
StreamEnd ==
  /\ bb = "parsing"
  /\ \E k \in 1..opened :
       /\ Announced(k)
       /\ ~ended[k]
       /\ sent[k] = Len(parts[k].sizes) \/ limited[k]
       /\ (HasLimit /\ seen[k] = FileSizeLimit) => limited[k]
       /\ \A j \in 1..(k - 1) : ended[j]
       /\ ended' = [ended EXCEPT ![k] = TRUE]
       /\ files' = IF reader \in ParseMultipartReaders
                   THEN Append(files, EndRecord(k))
                   ELSE files
  /\ UNCHANGED << hvars, pvars, reader, parts, bb, opened, sent, seen, limited, chunks,
                  fields, promise, value, fileBuffer, gotFile, info, overlap >>

\* What readSingleFile resolves with: { fileBuffer: gotFile ? fileBuffer :
\* null, filename, mimetype }, as the list of the files read.
SingleFile ==
  IF gotFile THEN << File(info.filename, info.mimeType, fileBuffer) >>
  ELSE << >>

\* bb.on("finish", () => resolve(...)): the parser has taken the whole body
\* and every stream it opened has ended.
BbFinish ==
  /\ bb = "parsing"
  /\ opened = Len(parts)
  /\ \A k \in 1..Len(parts) : ended[k]
  /\ bb' = "finished"
  /\ IF reader = "D" THEN Settle("resolved", SingleFile)
     ELSE IF reader \in ResolveOnFinish THEN Settle("resolved", files)
     ELSE UNCHANGED << promise, value >>
  /\ UNCHANGED << hvars, pvars, files, reader, parts, opened, sent, seen, limited,
                  ended, chunks, fields, fileBuffer, gotFile, info, overlap >>

\* bb.on("error", reject): a malformed or cut-off body.
BbError ==
  /\ bb = "parsing"
  /\ bb' = "errored"
  /\ Settle("rejected", "error")
  /\ UNCHANGED << hvars, pvars, files, reader, parts, opened, sent, seen, limited,
                  ended, chunks, fields, fileBuffer, gotFile, info, overlap >>

\* bb.on("close", () => resolve(...)): the parser closes after 'finish' or
\* after 'error'.
BbClose ==
  /\ bb \in {"finished", "errored"}
  /\ bb' = "closed"
  /\ IF reader \in ResolveOnFinish THEN UNCHANGED << promise, value >>
     ELSE Settle("resolved", files)
  /\ UNCHANGED << hvars, pvars, files, reader, parts, opened, sent, seen, limited,
                  ended, chunks, fields, fileBuffer, gotFile, info, overlap >>

\* --------------------------------------------------- presentation archives

\* The most entries an archive has.
MaxEntries == 3

\* An archive entry named <dir>/<stem><digits>.<ext>; `runs` are the contents
\* of the <a:t> elements of its XML, in document order.
Entry(dir, stem, digits, ext, runs) ==
  [dir |-> dir, stem |-> stem, digits |-> digits, ext |-> ext, runs |-> runs]

EntryShapes ==
  { Entry("ppt/slides", "slide", << 2 >>, "xml", << Str("a", 1) >>),
    Entry("ppt/slides", "slide", << 1, 0 >>, "xml",
          << << Run("b", 1), Run("SP", 2), Run("b", 1) >>, Str("&amp;", 1) >>),
    Entry("ppt/slides", "slide", << 3 >>, "xml", << Str("SP", 1) >>),
    Entry("ppt/slides", "slide", << 1 >>, "xml",
          << << Run("d", 1), Run("NL", 1), Run("d", 1) >> >>),
    Entry("ppt/slideLayouts", "slideLayout", << 1 >>, "xml", << Str("l", 1) >>),
    Entry("ppt/media", "image", << 1 >>, "png", << >>),
    Entry("ppt/media", "image", << 2 >>, "JPG", << >>),
    Entry("ppt/media", "image", << 3 >>, "gif", << >>) }

\* The archives: no two entries of an archive have the same name.
Archives ==
  { es \in UNION { [1..n -> EntryShapes] : n \in 0..MaxEntries } :
      \A j, k \in 1..Len(es) : es[j] = es[k] => j = k }

\* /^ppt\/slides\/slide\d+\.xml$/.test(e.entryName)
IsSlide(e) ==
  e.dir = "ppt/slides" /\ e.stem = "slide" /\ e.digits # << >> /\ e.ext = "xml"

\* /^ppt\/media\/.+\.(png|jpe?g|webp)$/i.test(e.entryName)
IsMediaImage(e) ==
  e.dir = "ppt/media" /\ Lower(e.ext) \in {"png", "jpg", "jpeg", "webp"}

\* parseInt, reading only the first digit.
ParseIntLeadingDigit(ds) == IF ds = << >> THEN 0 ELSE ds[1]

RECURSIVE ParseInt(_)
\* parseInt(digits, 10), +digits
ParseInt(ds) ==
  IF ds = << >> THEN 0
  ELSE 10 * ParseInt(SubSeq(ds, 1, Len(ds) - 1)) + ds[Len(ds)]

\* parseInt(e.entryName.match(/slide(\d+)\.xml/)?.[1] || "0", 10)
SlideIndex(e) == ParseInt(e.digits)

RECURSIVE SortSlides(_)
\* es.sort((a, b) => na - nb): ascending by slide index, entries of equal
\* index staying in their order.
SortSlides(es) ==
  IF es = << >> THEN << >>
  ELSE LET e == es[Len(es)]
           rest == SortSlides(SubSeq(es, 1, Len(es) - 1))
       IN SelectSeq(rest, LAMBDA x : SlideIndex(x) <= SlideIndex(e))
            \o << e >>
            \o SelectSeq(rest, LAMBDA x : SlideIndex(x) > SlideIndex(e))

\* entries.filter(...).sort(...)
SlidesOf(es) == SortSlides(SelectSeq(es, IsSlide))

\* entries.filter(...) of the media images
MediaOf(es) == SelectSeq(es, IsMediaImage)

\* unescapeXML, for the entity the model uses: &amp; becomes &.
UnescapeXML(t) ==
  Norm([j \in 1..Len(t) |-> IF t[j].c = "&amp;" THEN Run("&", t[j].n) ELSE t[j]])

\* t.replace(/\s+/g, " ")
CollapseWs(t) ==
  LET m == Norm([j \in 1..Len(t) |->
                   IF IsWs(t[j].c) THEN Run("SP", t[j].n) ELSE t[j]])
  IN [j \in 1..Len(m) |-> IF m[j].c = "SP" THEN Run("SP", 1) ELSE m[j]]

\* Whether `.` fails to match some character of t.
HasLineBreak(t) == \E j \in 1..Len(t) : t[j].c \in {"NL", "CR"}

\* The captures of xml.matchAll(...): /<a:t>([\s\S]*?)<\/a:t>/g finds every
\* element and part_000 cleans each capture; /<a:t>(.*?)<\/a:t>/g finds only
\* the elements without a line break.
TextRuns(v, e) ==
  IF v = "C"
  THEN [j \in 1..Len(e.runs) |-> Trim(CollapseWs(UnescapeXML(e.runs[j])))]
  ELSE SelectSeq(e.runs, LAMBDA t : ~HasLineBreak(t))

\* textRuns.join(" ").trim(); part_001 joins without trimming.
SlideTextOf(v, e) ==
  LET joined == Join(TextRuns(v, e), Str("SP", 1))
  IN IF v = "F" THEN joined ELSE Trim(joined)

\* if (slideText) / if (text) / if (text.trim())
Pushes(v, t) == IF v = "F" THEN ~Blank(t) ELSE t # << >>

\* The texts the slide loop pushes, in loop order.
SlidePieces(v, ss) ==
  SelectSeq([j \in 1..Len(ss) |-> SlideTextOf(v, ss[j])], LAMBDA t : Pushes(v, t))

\* "\n\n"
BlankLine == Str("NL", 2)

\* guessMimeFromName(img.entryName)
guessMimeFromName(e) ==
  IF Lower(e.ext) = "png" THEN Mime("image", "png")
  ELSE IF Lower(e.ext) \in {"jpg", "jpeg"} THEN JpegMime
  ELSE IF Lower(e.ext) = "webp" THEN Mime("image", "webp")
  ELSE JpegMime

\* No request body is being read.
ReaderIdle ==
  /\ reader = "none" /\ parts = << >> /\ bb = "idle" /\ opened = 0
  /\ sent = << >> /\ seen = << >> /\ limited = << >> /\ ended = << >>
  /\ chunks = << >> /\ fields = {} /\ promise = "resolved" /\ value = << >>
  /\ fileBuffer = << >> /\ gotFile = FALSE /\ overlap = FALSE
  /\ info = [filename |-> NoName, mimeType |-> NoMime]

\* The extractor is called with the buffer of an archive: zip.getEntries()
\* has returned and nothing is scanned yet.
PptxInit ==
  /\ HandlerIdle
  /\ files = << >>
  /\ ReaderIdle
  /\ variant \in ResultsHandlers
  /\ entries \in Archives
  /\ slideEntries = << >>
  /\ pushed = << >>
  /\ at = 1
  /\ ppc = "slides"
  /\ calls = << >>
  /\ output = << >>

\* return pieces.join("\n\n")
Return(ps) ==
  /\ ppc' = "done"
  /\ output' = Join(ps, BlankLine)

\* The slide part of the extractor, which runs without suspending: filter and
\* sort the slide entries, push the text of each slide that has some. Only
\* extractFromPptx of extract.js goes on to the media images; the others
\* return here.
ScanSlides ==
  /\ ppc = "slides"
  /\ slideEntries' = SlidesOf(entries)
  /\ pushed' = SlidePieces(variant, SlidesOf(entries))
  /\ IF variant = "B" /\ MediaOf(entries) # << >>
     THEN ppc' = "media" /\ UNCHANGED output
     ELSE Return(pushed')
  /\ UNCHANGED << hvars, files, rvars, variant, entries, at, calls >>

\* The catch block of the image loop, were it to drop what was pushed.
PushOcrOrReset(ps, t) ==
  IF ~t.ok THEN << >> ELSE IF t.out # << >> THEN Append(ps, t.out) ELSE ps

\* try { const t = await ocrWithOpenAI(...); if (t) pieces.push(t); }
\* catch (_) { /* ignore single image errors */ }
PushOcr(ps, t) == IF t.ok /\ t.out # << >> THEN Append(ps, t.out) ELSE ps

\* One turn of the loop over mediaImages: the OCR call for the image and what
\* is done with its answer; after the last image the extractor returns.
OcrMedia ==
  /\ ppc = "media"
  /\ LET img == MediaOf(entries)[at] IN
       \E r \in Vision :
         /\ calls' = Append(calls, [entry |-> img, mime |-> guessMimeFromName(img),
                                    r |-> ocrWithOpenAI(r)])
         /\ pushed' = PushOcr(pushed, ocrWithOpenAI(r))
  /\ at' = at + 1
  /\ IF at = Len(MediaOf(entries))
     THEN Return(pushed')
     ELSE UNCHANGED << ppc, output >>
  /\ UNCHANGED << hvars, files, rvars, variant, entries, slideEntries >>

\* ---------------------------------------------------------------- claims

\* The files whose outcome a results handler has recorded.
Recorded == 1..Len(results)

PrimaryTries(k) == SelectSeq(tries[k], LAMBDA t : t.phase = "primary")

FallbackTries(k) == SelectSeq(tries[k], LAMBDA t : t.phase = "fallback")

\* The text the primary chain left in `text`: empty when no strategy ran.
PrimaryText(k) == IF PrimaryTries(k) = << >> THEN << >> ELSE PrimaryTries(k)[1].out

PrimaryThrew(k) == PrimaryTries(k) # << >> /\ ~PrimaryTries(k)[1].ok

\* The attempts that produced text with a non-whitespace character.
Good(k) == { j \in 1..Len(tries[k]) : tries[k][j].ok /\ ~Blank(tries[k][j].out) }

Min(S) == CHOOSE m \in S : \A n \in S : m <= n

FirstNonEmpty(k) == tries[k][Min(Good(k))].out

Threw(k) == { j \in 1..Len(tries[k]) : ~tries[k][j].ok }

\* C1: a results handler answers a POST request of N >= 1 file records with
\* exactly N outcomes, the k-th carrying the k-th record's file name,
\* whatever the per-file extraction did.
C1_OneOutcomePerFile ==
  (handler \in ResultsHandlers /\ method = "POST" /\ pc = "done"
     /\ Len(files) >= 1) =>
     /\ status = 200
     /\ body.kind = "results"
     /\ Len(body.results) = Len(files)
     /\ \A k \in 1..Len(files) : body.results[k].file = files[k].filename

\* A finished request of two differently named files, one whose extraction
\* threw and one that succeeded.
C1_Witness ==
  /\ handler \in ResultsHandlers /\ pc = "done" /\ Len(files) = 2
  /\ files[1].filename # files[2].filename
  /\ Threw(1) # {} /\ ~body.results[1].ok
  /\ body.results[2].ok

\* C2: a throw while extracting one file never aborts the request: every
\* file of a POST request whose own extraction did not throw has been
\* processed when the handler ends, and the response is the normal one that
\* carries it.
C2_FailureIsolation ==
  (handler \in ResultsHandlers \cup BlobHandlers /\ method = "POST"
     /\ pc = "done") =>
     \A k \in 1..Len(files) :
       Threw(k) = {} => (k < i /\ status = 200)

\* C3: whenever a file's primary strategy threw, an Optical-Recognition
\* fallback was attempted on the file before its outcome was recorded.
C3_ThrowLeadsToFallback ==
  handler \in ResultsHandlers =>
    \A k \in Recorded :
      PrimaryThrew(k) =>
        \E j \in 1..Len(tries[k]) :
          tries[k][j].phase = "fallback" /\ tries[k][j].strat = "ocr"

\* C4: in the handlers that fall back for every category (B and C), a
\* recorded file whose primary chain left empty or whitespace-only text
\* without throwing has had exactly one fallback Optical-Recognition call,
\* and no file has had more than one.
C4_ExactlyOneFallbackCall ==
  handler \in {"B", "C"} =>
    \A k \in Recorded :
      /\ Len(FallbackTries(k)) <= 1
      /\ \A j \in 1..Len(FallbackTries(k)) : FallbackTries(k)[j].strat = "ocr"
      /\ (~PrimaryThrew(k) /\ Blank(PrimaryText(k))) => Len(FallbackTries(k)) = 1
      /\ (PrimaryThrew(k) \/ ~Blank(PrimaryText(k))) => Len(FallbackTries(k)) = 0

\* An image whose primary strategy was Optical-Recognition and returned
\* nothing, whose single fallback call returned nothing too.
C4_Witness ==
  /\ handler = "B" /\ 1 \in Recorded
  /\ isImage(files[1].mimeType)
  /\ Len(PrimaryTries(1)) = 1 /\ PrimaryTries(1)[1].strat = "ocr"
  /\ PrimaryTries(1)[1].ok /\ Blank(PrimaryText(1))
  /\ Len(FallbackTries(1)) = 1 /\ FallbackTries(1)[1].ok
  /\ Blank(FallbackTries(1)[1].out)
  /\ ~results[1].ok

\* What the outcome of file k must be, given the attempts made for it;
\* `trimmed` says whether the handler trims the chosen text.
WellFormed(k, trimmed) ==
  LET r == results[k] IN
    /\ r.file = files[k].filename
    /\ r.ok <=> Good(k) # {}
    /\ r.ok => /\ ~Blank(r.text)
               /\ r.text = (IF trimmed THEN Trim(FirstNonEmpty(k))
                            ELSE FirstNonEmpty(k))
               /\ r.error = ""
    /\ ~r.ok => /\ r.error # ""
                /\ Threw(k) = {} => r.error = "No extractable text found"
                /\ \A j \in Threw(k) : r.error = tries[k][j].msg

\* C5 as stated: every outcome is Success with the first non-empty result
\* of the attempts as its text, or Failure exactly when every attempt was
\* empty or threw.
C5_TextIsFirstResult ==
  handler \in ResultsHandlers => \A k \in Recorded : WellFormed(k, FALSE)

\* C5 amended: as stated, except that handler F records the first
\* non-empty result with its surrounding whitespace removed.
C5_OutcomeWellFormed ==
  /\ handler \in {"B", "C"} => \A k \in Recorded : WellFormed(k, FALSE)
  /\ handler = "F" => \A k \in Recorded : WellFormed(k, TRUE)

\* F recorded two files: a Success whose first non-empty result had
\* surrounding whitespace, then a Failure none of whose attempts threw.
C5_Witness ==
  /\ handler = "F" /\ Len(results) = 2
  /\ results[1].ok /\ FirstNonEmpty(1) # Trim(FirstNonEmpty(1))
  /\ ~results[2].ok /\ tries[2] # << >> /\ Threw(2) = {}

IsDocx(f) == Lower(f.filename.ext) = "docx"

\* C6: whatever the Optical-Recognition service answers, the outcome of an
\* uploaded .docx file is a Failure, never a Success carrying text.
C6_DocxNeverSucceeds ==
  handler \in ResultsHandlers =>
    \A k \in Recorded :
      (IsDocx(files[k]) /\ files[k].mimeType = DocxMime) => ~results[k].ok

\* C7 as stated: the returned text is never longer than 12,000 characters
\* (A, E) or 200,000 characters (D).
C7_WithinDeclaredCap ==
  (pc = "done" /\ body.kind = "text") =>
     Length(body.text) <= (IF handler = "D" THEN SingleCap ELSE BlobCap)

\* C7 amended: 12,000 characters for A and E; for D 200,000 characters plus
\* the 12 characters of the "\n[truncated]" mark it appends when it cuts.
C7_WithinCapAndMark ==
  (pc = "done" /\ body.kind = "text") =>
     Length(body.text) <=
       (IF handler = "D" THEN SingleCap + Length(TruncatedMark) ELSE BlobCap)

\* D cut a text longer than its cap and appended the mark.
C7_Witness ==
  /\ pc = "done" /\ handler = "D" /\ status = 200 /\ body.kind = "text"
  /\ Length(tries[1][1].out) > SingleCap
  /\ Length(body.text) = SingleCap + 12

\* The non-whitespace characters of a text, in order.
Visible(s) == Norm(SelectSeq(s, LAMBDA r : ~IsWs(r.c)))

\* a is what s.slice(0, k) gives for some k.
IsPrefix(a, s) ==
  \/ a = << >>
  \/ /\ Len(a) <= Len(s)
     /\ \A j \in 1..(Len(a) - 1) : a[j] = s[j]
     /\ a[Len(a)].c = s[Len(a)].c
     /\ a[Len(a)].n <= s[Len(a)].n

NonEmpty(texts) == SelectSeq(texts, LAMBDA t : t # << >>)

\* The text of file k when its extraction succeeded, nothing otherwise.
SuccessText(k) ==
  IF tries[k] # << >> /\ tries[k][1].ok THEN tries[k][1].out ELSE << >>

\* What file k stands for in A's text: its text, or the bracketed message
\* for a failed extraction, a deck without text or a .docx file.
PieceA(k) ==
  LET t == tries[k]
      name == files[k].filename
  IN IF t = << >> THEN DocxMsgA
     ELSE IF ~t[1].ok
     THEN CASE t[1].strat = "pdf" -> Msg("[Could not parse PDF: ]", name)
            [] t[1].strat = "ocr" -> Msg("[Could not OCR image: ]", name)
            [] OTHER ->
                 Msg("[Could not parse  directly. Tip: Export slides as PDF and re-upload for best results.]",
                     name)
     ELSE IF t[1].strat = "pptx" /\ t[1].out = << >>
     THEN Msg("[No visible text found in ]", name)
     ELSE t[1].out

\* What file k stands for in E's text: its text, or the .docx message.
PieceE(k) == IF tries[k] = << >> THEN DocxMsgE ELSE SuccessText(k)

\* body.text shows exactly the characters of the pieces, in order, up to the cap.
ShowsPieces(pieces) ==
  LET all == Visible(Join(pieces, Str("NL", 2))) IN
    /\ IsPrefix(Visible(body.text), all)
    /\ Length(body.text) < BlobCap => Visible(body.text) = all

\* The pieces cleaned one by one and joined by blank lines.
JoinedByBlankLines(pieces) ==
  Join(NonEmpty([k \in 1..Len(pieces) |-> Trim(CollapseNL(StripCR(pieces[k])))]),
       Str("NL", 2))

\* C8 as stated: the text a blob handler returns is the texts of the files
\* whose extraction succeeded, joined by blank lines; a failed or empty
\* file contributes no character.
C8_OnlySuccessTexts ==
  (handler \in BlobHandlers /\ pc = "done" /\ status = 200) =>
     LET texts == [k \in 1..Len(files) |-> SuccessText(k)] IN
       /\ ShowsPieces(texts)
       /\ body.text = Slice(JoinedByBlankLines(texts), BlobCap)

\* C8 amended: the text a blob handler returns is built, in file order, from
\* one piece per file: the file's text when its extraction succeeded and
\* nothing when it yielded nothing, but a bracketed message for a .docx
\* file (A, E) and for a failed extraction or a deck without text (A).  A
\* joins the pieces by blank lines; E leaves only whitespace between them
\* and answers 500 as soon as an extraction throws.
C8_TextsAndMessages ==
  (handler \in BlobHandlers /\ method = "POST" /\ pc = "done"
     /\ Len(files) >= 1) =>
     /\ handler = "A" =>
          LET pieces == [k \in 1..Len(files) |-> PieceA(k)] IN
            /\ status = 200
            /\ ShowsPieces(pieces)
            /\ body.text = Slice(JoinedByBlankLines(pieces), BlobCap)
     /\ handler = "E" =>
          /\ status = 200 => ShowsPieces([k \in 1..Len(files) |-> PieceE(k)])
          /\ status = 500 <=> \E k \in 1..Len(files) : Threw(k) # {}

\* A answered a request of a PDF that could not be parsed and a file that
\* was extracted: the text holds the message and the extracted text.
C8_Witness ==
  /\ handler = "A" /\ pc = "done" /\ Len(files) = 2
  /\ Threw(1) # {} /\ tries[1][1].strat = "pdf"
  /\ SuccessText(2) # << >> /\ ~Blank(SuccessText(2))
  /\ Len(Visible(body.text)) >= 2
  /\ Visible(body.text)[1].c = "[Could not parse PDF: ]"

\* The file parts of the body, in body order.
FileParts ==
  SelectSeq([k \in 1..Len(parts) |-> k], LAMBDA k : IsFilePart(k))

\* The records hold, in order, all the bytes of the given parts.
HoldsAllOf(records, ks) ==
  /\ Len(records) = Len(ks)
  /\ \A n \in 1..Len(ks) : records[n].buffer = Whole(ks[n])

\* C9: the promise of parseMultipart / parseForm resolves only after the
\* whole body has been taken and every file part has ended: however the
\* 'data' and 'end' events of the parts and the parser's 'finish' and 'close'
\* interleave, the resolved list has one record per file part of the body, in
\* part order, each holding all the bytes of its part.
C9_ResolvedListComplete ==
  (reader \in ParseMultipartReaders /\ promise = "resolved") =>
    /\ bb \in {"finished", "closed"}
    /\ opened = Len(parts)
    /\ \A k \in 1..Len(parts) :
         IsFilePart(k) => (ended[k] /\ sent[k] = Len(parts[k].sizes))
    /\ HoldsAllOf(value, FileParts)

\* Two file parts of two chunks each, the second of which emitted 'data'
\* before the first had ended, and the promise has resolved.
C9_Witness ==
  /\ reader \in ParseMultipartReaders
  /\ promise = "resolved"
  /\ overlap
  /\ Len(value) = 2
  /\ \A k \in 1..2 : Len(parts[k].sizes) = 2 /\ Len(value[k].buffer) = 2

\* The parts whose bytes the reader keeps.
Kept(k) == IF reader = "D" THEN Listening(k) ELSE IsFilePart(k)

\* The bytes of part k.
PartSize(k) == Length(Whole(k))

\* C10: the reader enforces an upper bound on the size of each file part it
\* keeps: it never resolves when such a part is larger than the bound, and
\* never resolves with a buffer that is only a cut-off prefix of its part.
C10_SizeBoundEnforced ==
  promise = "resolved" =>
    /\ \A k \in 1..Len(parts) : Kept(k) => PartSize(k) <= FileSizeLimit
    /\ \A n \in 1..Len(value) :
         \E k \in 1..Len(parts) : Kept(k) /\ value[n].buffer = Whole(k)


\* The category the declared MIME type maps to in the known-category table,
\* named by its strategy; "none" when the type is absent or generic.
MimeCategory(mt) ==
  IF mt = PdfMime THEN "pdf"
  ELSE IF mt = PptxMime THEN "pptx"
  ELSE IF mt.type = "text" THEN "txt"
  ELSE IF isImage(mt) THEN "ocr"
  ELSE "none"

\* C11: the declared MIME type takes precedence over the file name's
\* extension: a file whose declared type maps to a known category is first
\* given to that category's strategy, whatever its extension is.
C11_MimeTakesPrecedence ==
  handler \in ResultsHandlers =>
    \A k \in Recorded :
      MimeCategory(files[k].mimeType) # "none" =>
        /\ tries[k] # << >>
        /\ tries[k][1].strat = MimeCategory(files[k].mimeType)

RECURSIVE Horner(_, _)
Horner(acc, ds) ==
  IF ds = << >> THEN acc ELSE Horner(10 * acc + Head(ds), Tail(ds))

\* The number a slide entry's name carries: 10 for slide10.xml.
SlideNumber(e) == Horner(0, e.digits)

\* The slides of the archive that have text.
TextSlides ==
  { e \in { entries[j] : j \in 1..Len(entries) } :
      IsSlide(e) /\ ~Blank(SlideTextOf(variant, e)) }

\* The slides that have text, by ascending slide number.
ByNumber ==
  CHOOSE ts \in [1..Cardinality(TextSlides) -> TextSlides] :
    \A j, k \in 1..Cardinality(TextSlides) :
      j < k => SlideNumber(ts[j]) < SlideNumber(ts[k])

\* C12: whatever the order of the entries in the archive, the extractor
\* emits the slide texts by ascending number of the slide (slide2 before
\* slide10); a slide without text emits nothing, and the texts emitted, none
\* of which holds a line break, are joined by one blank line each.
C12_SlidesInNumericOrder ==
  ppc \in {"media", "done"} =>
    /\ Len(pushed) >= Len(ByNumber)
    /\ \A j \in 1..Len(ByNumber) :
         /\ pushed[j] = SlideTextOf(variant, ByNumber[j])
         /\ pushed[j] # << >>
         /\ ~HasLineBreak(pushed[j])
    /\ Len(pushed) <= Len(ByNumber) + Len(calls)
    /\ ppc = "done" => output = Join(pushed, BlankLine)

\* An archive that lists slide10 before slide2 and holds a slide without
\* text: the extractor returned the text of slide2, a blank line, the text of
\* slide10.
C12_Witness ==
  /\ ppc = "done"
  /\ \E j, k \in 1..Len(entries) :
       /\ j < k
       /\ IsSlide(entries[j]) /\ entries[j].digits = << 1, 0 >>
       /\ IsSlide(entries[k]) /\ entries[k].digits = << 2 >>
  /\ \E j \in 1..Len(entries) : entries[j].digits = << 3 >> /\ IsSlide(entries[j])
  /\ Len(pushed) = 2
  /\ output = Cat(Cat(Str("a", 1), BlankLine), pushed[2])
  /\ pushed[2] # << >>

\* The files the handler classified as PlainText: the text strategy ran.
IsPlainText(k) == tries[k] # << >> /\ tries[k][1].strat = "txt"

\* C13: the outcome text of a file classified as PlainText is the UTF-8
\* decoding of its bytes, unchanged, and no other strategy's output takes
\* its place.
C13_PlainTextRoundTrip ==
  handler \in ResultsHandlers =>
    \A k \in Recorded :
      (IsPlainText(k) /\ results[k].ok) =>
        results[k].text = Utf8(files[k].buffer)

\* C14: every handler answers a request whose method is neither POST nor
\* OPTIONS with 405 and an OPTIONS request with 200 and no body, in both
\* cases without reading the request body or calling an external service;
\* only a POST request reaches ingestion.
C14_OnlyPostIsIngested ==
  /\ (pc = "done" /\ method = "OPTIONS") => (status = 200 /\ body.kind = "end")
  /\ (pc = "done" /\ method \notin {"POST", "OPTIONS"}) =>
       (status = 405 /\ body.error = "POST only")
  /\ method # "POST" =>
       /\ pc \in {"start", "done"}
       /\ ~ingested /\ fetched = 0
       /\ \A k \in 1..Len(tries) : tries[k] = << >>
  /\ ingested => method = "POST"

\* A GET request to generate.js that carries a key and a text, so that as a
\* POST it would have been sent on, was answered 405.
C14_Witness ==
  /\ handler = "G" /\ method = "GET" /\ pc = "done"
  /\ req.apiKey /\ Trim(req.body.text) # << >>
  /\ status = 405 /\ fetched = 0

\* C15: the cards generate.js returns all have a non-empty front and back,
\* and there are never more of them than the maximum card count, 20.
C15_CardsFilteredAndCapped ==
  (handler = "G" /\ pc = "done" /\ body.kind = "cards") =>
     /\ \A j \in 1..Len(body.results) : KeepsCard(body.results[j])
     /\ Len(body.results) <= 20

\* C16: every response of generate.js has a status in {200, 400, 405, 500,
\* 502}; a status of the upstream service is never passed on to the client.
C16_StatusInDeclaredSet ==
  (handler = "G" /\ pc = "done") => status \in {200, 400, 405, 500, 502}

\* The texts the OCR calls made so far recognized, in call order.
Recognized ==
  LET good == SelectSeq(calls, LAMBDA c : c.r.ok /\ c.r.out # << >>)
  IN [j \in 1..Len(good) |-> good[j].r.out]

\* C17: extractFromPptx sends each media image of the archive to OCR exactly
\* once, in archive order, and a call that fails costs only that image's
\* text: the text returned is the slide texts followed by the recognized
\* texts of the other images, in that order.
C17_EachImageOnceIsolated ==
  variant = "B" =>
    /\ Len(calls) <= Len(MediaOf(entries))
    /\ \A j \in 1..Len(calls) :
         /\ calls[j].entry = MediaOf(entries)[j]
         /\ calls[j].mime = guessMimeFromName(calls[j].entry)
    /\ ppc = "done" =>
         /\ Len(calls) = Len(MediaOf(entries))
         /\ output =
              Join([j \in 1..Len(ByNumber) |-> SlideTextOf("B", ByNumber[j])]
                     \o Recognized, BlankLine)

\* A deck of one slide and two images: the call for the first image failed,
\* and the text returned is the slide's text, a blank line and what was
\* recognized in the second image.
C17_Witness ==
  /\ variant = "B" /\ ppc = "done"
  /\ Len(ByNumber) = 1 /\ Len(calls) = 2
  /\ ~calls[1].r.ok
  /\ calls[2].r.ok /\ calls[2].r.out # << >>
  /\ calls[1].entry # calls[2].entry
  /\ output = Cat(Cat(SlideTextOf("B", ByNumber[1]), BlankLine), calls[2].r.out)

Next ==
  \/ Start
  \/ PrimaryB \/ FallbackB \/ RecordB
  \/ PrimaryC \/ FallbackC \/ RecordC
  \/ PrimaryF \/ FallbackF \/ RecordF
  \/ RespondResults
  \/ SegmentA \/ RespondA
  \/ SegmentE \/ RespondE
  \/ SingleD
  \/ GenerateStart \/ GenerateReply

Spec == Init /\ [][Next]_vars

ReaderNext ==
  \/ BbFile \/ BbField
  \/ StreamData \/ StreamLimit \/ StreamEnd
  \/ BbFinish \/ BbError \/ BbClose

ReaderSpec == ReaderInit /\ [][ReaderNext]_vars

PptxNext == ScanSlides \/ OcrMedia

PptxSpec == PptxInit /\ [][PptxNext]_vars
====
